---- MODULE Spec2Model ----
(***************************************************************************)
(* CryptoScope (src/main.py): the indicator engine                         *)
(* (calculate_technical_indicators), the signal scorer                     *)
(* (calculate_investment_signal) and the CryptoScope object that calls     *)
(* them (analyze_coin, the rate-limited fetches).                          *)
(*                                                                         *)
(* Python values are modelled as tagged records [k, v]:                    *)
(*   k = "num"    a number (v is its value; percentages, prices and ranks  *)
(*                are taken on an integer grid that holds every threshold  *)
(*                of the code and a point on either side of it)            *)
(*   k = "null"   None (a JSON null)                                       *)
(*   k = "absent" the key is missing from the dict                         *)
(*   k = "str"    a non-numeric (string) value                             *)
(*   k = "nan"    float NaN (the ta library's value for a warm-up row)     *)
(* The volume/market-cap ratio is kept as an exact fraction <<n, d>>.      *)
(***************************************************************************)
EXTENDS Integers, Sequences, FiniteSets, TLC

VARIABLES
    analysis_count,        \* self.analysis_count
    last_api_call_time,    \* self.last_api_call_time (ticks)
    now,                   \* time.time() (ticks)
    data,                  \* argument of the latest calculate_investment_signal call
    indicators,            \* its indicators argument
    signal,                \* the Signal it returned
    locals,                \* its locals at the end of the try block: exc, score, future_outlook
    raised,                \* the exception that left the call ("none": it returned)
    historical_df,         \* argument of the latest calculate_technical_indicators call
    ti_result,             \* the value it returned
    ref,                   \* an earlier scoring call kept for comparison: inputs and Signal
    report,                \* what the latest analyze_coin printed and called
    issued,                \* the instants (ticks) at which the API requests were issued
    lastOp                 \* the operation that produced this state

vars == <<analysis_count, last_api_call_time, now, data, indicators, signal, locals,
          raised, historical_df, ti_result, ref, report, issued, lastOp>>

objectFields == <<analysis_count, last_api_call_time>>

-----------------------------------------------------------------------------
(* Python values *)

Num(n) == [k |-> "num", v |-> n]
Null == [k |-> "null", v |-> 0]
Absent == [k |-> "absent", v |-> 0]
Str == [k |-> "str", v |-> 0]
NaN == [k |-> "nan", v |-> 0]

\* dict.get(key, default)
Get(val, default) == IF val.k = "absent" THEN default ELSE val

\* bool(x): None and 0 are falsy; a non-zero number, NaN and a non-empty string are truthy
Truthy(val) ==
    CASE val.k = "num" -> val.v # 0
      [] val.k \in {"null", "absent"} -> FALSE
      [] OTHER -> TRUE

\* a comparison or division of x with a number raises TypeError when x is None or a string
NotNumeric(val) == val.k \in {"null", "str", "absent"}

\* a > b for Python values: "X" raises TypeError, otherwise "T" or "F" (NaN compares false)
Gt(a, b) ==
    IF NotNumeric(a) \/ NotNumeric(b) THEN "X"
    ELSE IF a.k = "num" /\ b.k = "num" /\ a.v > b.v THEN "T" ELSE "F"

\* bool(x) as a link of an `and` chain
Tr(val) == IF Truthy(val) THEN "T" ELSE "F"

\* Python's short-circuit `and` over a chain of links: the first falsy link ends the
\* chain with False, a link that raises before that ends it with the exception
RECURSIVE AndChain(_)
AndChain(links) ==
    IF links = <<>> THEN "T"
    ELSE IF Head(links) = "T" THEN AndChain(Tail(links))
    ELSE Head(links)

-----------------------------------------------------------------------------
(* calculate_investment_signal: lines 268-406 *)

\* a base score that reads the object's counter
BaseScoreCounting == 50 + analysis_count
BaseScore == 50
DefaultRank == 9999
ScoreFloor == 10
ScoreCeiling == 100

\* the phrases future_outlook is built from
NeutralOutlook == "Neutral outlook."
Overbought == "Potentially overbought, short-term pullback possible."
Oversold == "Potentially oversold, short-term bounce possible."
PositiveMomentum == "Positive momentum in play."
WeakMomentum == "Weak momentum or downward pressure."
UpwardTrend == "Upward trend forming based on short/mid-term MAs."
StrongShort == " Strong short-term trend."
DownwardTrend == "Downward trend forming based on short/mid-term MAs."
StrongShortBearish == " Strong short-term bearish trend."
LongBullishAppend == " Long-term trend is bullish."
LongBullish == "Long-term bullish trend confirmed."
LongBearishAppend == " Long-term trend is bearish."
LongBearish == "Long-term bearish trend observed."
BullishMomentum == "Increasing bullish momentum."
MomentumStrengthening == " Momentum is strengthening."
BearishMomentum == "Increasing bearish momentum."
MomentumWeakening == " Momentum is weakening."

\* the keywords of the `in future_outlook` tests that each phrase holds (the tests are
\* case-sensitive, and no keyword spans the joint of two phrases)
Keywords(phrase) ==
    CASE phrase = NeutralOutlook -> {"Neutral"}
      [] phrase = Overbought -> {"pullback"}
      [] phrase = Oversold -> {"bounce"}
      [] phrase = UpwardTrend -> {"Upward trend"}
      [] phrase = DownwardTrend -> {"Downward trend"}
      [] OTHER -> {}

\* word in future_outlook, future_outlook being the concatenation of a sequence of phrases
Contains(outlook, word) == \E i \in 1..Len(outlook) : word \in Keywords(outlook[i])

\* the state of the try block: the pending exception, score and future_outlook
St(exc, score, outlook) == [exc |-> exc, score |-> score, future_outlook |-> outlook]
Raise(exc) == St(exc, 0, <<NeutralOutlook>>)

\* lines 274-283: the lookups, in source order; the first one that raises decides
ExtractFault(d) ==
    IF d.shape = "null" THEN "TypeError"
    ELSE IF d.market_data = "absent" THEN "KeyError"
    ELSE IF d.market_data = "null" THEN "AttributeError"
    ELSE IF d.current_price.c = "absent" THEN "KeyError"
    ELSE IF d.current_price.c = "null" THEN "AttributeError"
    ELSE IF d.market_cap.c = "null" THEN "AttributeError"
    ELSE IF d.total_volume.c = "null" THEN "AttributeError"
    ELSE "none"

Price24h(d) == Get(d.price_change_percentage_24h, Num(0))
Price7d(d) == Get(d.price_change_percentage_7d, Num(0))
Price30d(d) == Get(d.price_change_percentage_30d, Num(0))
MarketCapRank(d) == Get(d.market_cap_rank, Num(DefaultRank))
\* X.get('usd', 0.0) of a present dict; market_cap and total_volume default to {} first
CurrentPrice(d) == Get(d.current_price.usd, Num(0))
MarketCap(d) == IF d.market_cap.c = "absent" THEN Num(0) ELSE Get(d.market_cap.usd, Num(0))
TotalVolume(d) ==
    IF d.total_volume.c = "absent" THEN Num(0) ELSE Get(d.total_volume.usd, Num(0))

\* line 285: (total_volume / market_cap * 100) if market_cap > 0 else 0.0
VolumeRatioFault(total_volume, market_cap) ==
    \/ NotNumeric(market_cap)
    \/ market_cap.v > 0 /\ NotNumeric(total_volume)
VolumeRatio(total_volume, market_cap) ==
    IF market_cap.v > 0 THEN <<total_volume.v * 100, market_cap.v>> ELSE <<0, 1>>
RatioGt(r, n) == r[1] > n * r[2]
RatioLt(r, n) == r[1] < n * r[2]

\* Score24h with the first threshold taken inclusively
Score24hInclusive(p) ==
    IF p >= 5 THEN 15 ELSE IF p > 0 THEN 5 ELSE IF p < -10 THEN -20 ELSE IF p < -5 THEN -10 ELSE 0
\* lines 291-294
Score24h(p) ==
    IF p > 5 THEN 15 ELSE IF p > 0 THEN 5 ELSE IF p < -10 THEN -20 ELSE IF p < -5 THEN -10 ELSE 0
\* lines 296-299
Score7d(p) ==
    IF p > 10 THEN 10 ELSE IF p > 0 THEN 3 ELSE IF p < -15 THEN -15 ELSE IF p < -5 THEN -8 ELSE 0
\* lines 301-302
Score30d(p) == IF p > 20 THEN 8 ELSE IF p < -30 THEN -12 ELSE 0
\* lines 304-306
ScoreRank(rank) == IF rank <= 10 THEN 10 ELSE IF rank <= 50 THEN 5 ELSE IF rank > 200 THEN -5 ELSE 0
\* lines 308-309
ScoreVolume(r) == IF RatioGt(r, 15) THEN 8 ELSE IF RatioLt(r, 2) THEN -10 ELSE 0

\* lines 274-309: the snapshot part of the score
SnapshotStage(d) ==
    IF ExtractFault(d) # "none" THEN Raise(ExtractFault(d))
    ELSE IF VolumeRatioFault(TotalVolume(d), MarketCap(d)) THEN Raise("TypeError")
    ELSE IF \E x \in {Price24h(d), Price7d(d), Price30d(d), MarketCapRank(d)} : NotNumeric(x)
         THEN Raise("TypeError")
    ELSE St("none",
            BaseScore + Score24h(Price24h(d).v) + Score7d(Price7d(d).v)
                + Score30d(Price30d(d).v) + ScoreRank(MarketCapRank(d).v)
                + ScoreVolume(VolumeRatio(TotalVolume(d), MarketCap(d))),
            <<NeutralOutlook>>)

-----------------------------------------------------------------------------
(* lines 311-371: the indicator rules, in source order *)

\* `if indicators:` is a truth test: None and the empty dict skip the rules
IndicatorsTruthy(ind) == ind.shape = "dict"
\* indicators.get(key): None when the key is missing
IndGet(val) == Get(val, Null)
Lt(a, b) == Gt(b, a)

\* the RSI rule with an oversold band that takes in 30
RsiStageInclusive(st, ind) ==
    LET rsi == IndGet(ind.rsi)
        neutral == st.future_outlook = <<NeutralOutlook>> IN
    IF st.exc # "none" \/ rsi.k = "null" THEN st
    ELSE IF NotNumeric(rsi) THEN Raise("TypeError")
    ELSE IF rsi.k = "nan" THEN st
    ELSE IF rsi.v > 70 THEN St("none", st.score - 10, <<Overbought>>)
    ELSE IF rsi.v <= 30 THEN St("none", st.score + 10, <<Oversold>>)
    ELSE IF 50 <= rsi.v /\ rsi.v <= 70
         THEN St("none", st.score + 5,
                 IF neutral THEN <<PositiveMomentum>> ELSE st.future_outlook)
    ELSE IF 30 < rsi.v /\ rsi.v < 50
         THEN St("none", st.score - 5,
                 IF neutral THEN <<WeakMomentum>> ELSE st.future_outlook)
    ELSE st

\* lines 316-329
RsiStage(st, ind) ==
    LET rsi == IndGet(ind.rsi)
        neutral == st.future_outlook = <<NeutralOutlook>> IN
    IF st.exc # "none" \/ rsi.k = "null" THEN st
    ELSE IF NotNumeric(rsi) THEN Raise("TypeError")
    ELSE IF rsi.k = "nan" THEN st
    ELSE IF rsi.v > 70 THEN St("none", st.score - 10, <<Overbought>>)
    ELSE IF rsi.v < 30 THEN St("none", st.score + 10, <<Oversold>>)
    ELSE IF 50 <= rsi.v /\ rsi.v <= 70
         THEN St("none", st.score + 5,
                 IF neutral THEN <<PositiveMomentum>> ELSE st.future_outlook)
    ELSE IF 30 < rsi.v /\ rsi.v < 50
         THEN St("none", st.score - 5,
                 IF neutral THEN <<WeakMomentum>> ELSE st.future_outlook)
    ELSE st

\* the short/mid rule overwriting the outlook whatever it holds
SmaShortStageOverwrite(st, current_close, ind) ==
    LET sma_7 == IndGet(ind.sma_7)
        sma_25 == IndGet(ind.sma_25)
        up == AndChain(<<Tr(sma_7), Tr(sma_25), Gt(current_close, sma_7), Gt(sma_7, sma_25)>>)
        down == AndChain(<<Tr(sma_7), Tr(sma_25), Lt(current_close, sma_7), Lt(sma_7, sma_25)>>)
    IN
    IF st.exc # "none" THEN st
    ELSE IF up = "X" THEN Raise("TypeError")
    ELSE IF up = "T" THEN St("none", st.score + 10, <<UpwardTrend>>)
    ELSE IF down = "X" THEN Raise("TypeError")
    ELSE IF down = "T" THEN St("none", st.score - 10, <<DownwardTrend>>)
    ELSE st

\* lines 337-346
SmaShortStage(st, current_close, ind) ==
    LET sma_7 == IndGet(ind.sma_7)
        sma_25 == IndGet(ind.sma_25)
        o == st.future_outlook
        up == AndChain(<<Tr(sma_7), Tr(sma_25), Gt(current_close, sma_7), Gt(sma_7, sma_25)>>)
        down == AndChain(<<Tr(sma_7), Tr(sma_25), Lt(current_close, sma_7), Lt(sma_7, sma_25)>>)
    IN
    IF st.exc # "none" THEN st
    ELSE IF up = "X" THEN Raise("TypeError")
    ELSE IF up = "T"
         THEN St("none", st.score + 10,
                 IF Contains(o, "Neutral") THEN <<UpwardTrend>>
                 ELSE IF Contains(o, "pullback") THEN o
                 ELSE Append(o, StrongShort))
    ELSE IF down = "X" THEN Raise("TypeError")
    ELSE IF down = "T"
         THEN St("none", st.score - 10,
                 IF Contains(o, "Neutral") THEN <<DownwardTrend>>
                 ELSE IF Contains(o, "bounce") THEN o
                 ELSE Append(o, StrongShortBearish))
    ELSE st

\* lines 348-355
SmaLongStage(st, ind) ==
    LET sma_25 == IndGet(ind.sma_25)
        sma_99 == IndGet(ind.sma_99)
        o == st.future_outlook
        bull == AndChain(<<Tr(sma_25), Tr(sma_99), Gt(sma_25, sma_99)>>)
        bear == AndChain(<<Tr(sma_25), Tr(sma_99), Lt(sma_25, sma_99)>>)
    IN
    IF st.exc # "none" THEN st
    ELSE IF bull = "X" THEN Raise("TypeError")
    ELSE IF bull = "T"
         THEN St("none", st.score + 5,
                 IF Contains(o, "Upward trend") THEN Append(o, LongBullishAppend)
                 ELSE IF Contains(o, "Neutral") THEN <<LongBullish>>
                 ELSE o)
    ELSE IF bear = "X" THEN Raise("TypeError")
    ELSE IF bear = "T"
         THEN St("none", st.score - 5,
                 IF Contains(o, "Downward trend") THEN Append(o, LongBearishAppend)
                 ELSE IF Contains(o, "Neutral") THEN <<LongBearish>>
                 ELSE o)
    ELSE st

\* the MACD rule without its test for None
MacdStageUnguarded(st, ind) ==
    LET macd == IndGet(ind.macd)
        macd_signal == IndGet(ind.macd_signal)
        macd_diff == IndGet(ind.macd_diff)
        o == st.future_outlook
        bull == AndChain(<<Gt(macd, macd_signal), Gt(macd_diff, Num(0))>>)
        bear == AndChain(<<Lt(macd, macd_signal), Lt(macd_diff, Num(0))>>)
    IN
    IF st.exc # "none" THEN st
    ELSE IF bull = "X" THEN Raise("TypeError")
    ELSE IF bull = "T"
         THEN St("none", st.score + 8,
                 IF Contains(o, "Neutral") THEN <<BullishMomentum>>
                 ELSE Append(o, MomentumStrengthening))
    ELSE IF bear = "X" THEN Raise("TypeError")
    ELSE IF bear = "T"
         THEN St("none", st.score - 8,
                 IF Contains(o, "Neutral") THEN <<BearishMomentum>>
                 ELSE Append(o, MomentumWeakening))
    ELSE st

\* lines 359-371
MacdStage(st, ind) ==
    LET macd == IndGet(ind.macd)
        macd_signal == IndGet(ind.macd_signal)
        macd_diff == IndGet(ind.macd_diff)
        o == st.future_outlook
        bull == AndChain(<<Gt(macd, macd_signal), Gt(macd_diff, Num(0))>>)
        bear == AndChain(<<Lt(macd, macd_signal), Lt(macd_diff, Num(0))>>)
    IN
    IF st.exc # "none" \/ macd.k = "null" \/ macd_signal.k = "null" THEN st
    ELSE IF bull = "X" THEN Raise("TypeError")
    ELSE IF bull = "T"
         THEN St("none", st.score + 8,
                 IF Contains(o, "Neutral") THEN <<BullishMomentum>>
                 ELSE Append(o, MomentumStrengthening))
    ELSE IF bear = "X" THEN Raise("TypeError")
    ELSE IF bear = "T"
         THEN St("none", st.score - 8,
                 IF Contains(o, "Neutral") THEN <<BearishMomentum>>
                 ELSE Append(o, MomentumWeakening))
    ELSE st

\* lines 273-371: the try block up to the capping; score is the score before capping
TryBlock(d, ind) ==
    LET s0 == SnapshotStage(d) IN
    IF s0.exc # "none" \/ ~IndicatorsTruthy(ind) THEN s0
    ELSE MacdStage(SmaLongStage(SmaShortStage(RsiStage(s0, ind), CurrentPrice(d), ind), ind), ind)

-----------------------------------------------------------------------------
(* lines 373-406: capping, recommendation, the returned Signal, the handlers *)

Min(a, b) == IF a < b THEN a ELSE b
Max(a, b) == IF a > b THEN a ELSE b

\* ClampScore without the ceiling
ClampScoreNoCeiling(score) == Max(ScoreFloor, score)
\* line 374
ClampScore(score) == Max(ScoreFloor, Min(ScoreCeiling, score))

\* Recommendation with strict thresholds
RecommendationStrict(score) ==
    IF score > 80 THEN "STRONG BUY"
    ELSE IF score > 65 THEN "BUY"
    ELSE IF score > 45 THEN "HOLD"
    ELSE IF score > 25 THEN "WAIT"
    ELSE "AVOID"
\* Recommendation with the thresholds 75 / 60 / 40
RecommendationLower(score) ==
    IF score >= 75 THEN "STRONG BUY"
    ELSE IF score >= 60 THEN "BUY"
    ELSE IF score >= 40 THEN "HOLD"
    ELSE IF score >= 25 THEN "WAIT"
    ELSE "AVOID"
\* lines 377-391
Recommendation(score) ==
    IF score >= 80 THEN "STRONG BUY"
    ELSE IF score >= 65 THEN "BUY"
    ELSE IF score >= 45 THEN "HOLD"
    ELSE IF score >= 25 THEN "WAIT"
    ELSE "AVOID"

Color(score) ==
    IF score >= 80 THEN "BRIGHT_GREEN+BOLD"
    ELSE IF score >= 65 THEN "BRIGHT_GREEN"
    ELSE IF score >= 45 THEN "BRIGHT_YELLOW"
    ELSE IF score >= 25 THEN "BRIGHT_YELLOW+DIM"
    ELSE "BRIGHT_RED+BOLD"

\* lines 393-397
NormalSignal(d, st) ==
    [recommendation |-> Recommendation(ClampScore(st.score)),
     confidence |-> ClampScore(st.score),
     color |-> Color(ClampScore(st.score)),
     price_24h |-> Price24h(d),
     price_7d |-> Price7d(d),
     volume_ratio |-> VolumeRatio(TotalVolume(d), MarketCap(d)),
     future_outlook |-> st.future_outlook]

\* lines 401-402
DataIncompleteSignal ==
    [recommendation |-> "DATA INCOMPLETE", confidence |-> 0, color |-> "RED",
     price_24h |-> Num(0), price_7d |-> Num(0), volume_ratio |-> <<0, 1>>,
     future_outlook |-> <<"Data error.">>]

\* lines 405-406
ErrorSignal ==
    [recommendation |-> "ERROR", confidence |-> 0, color |-> "RED",
     price_24h |-> Num(0), price_7d |-> Num(0), volume_ratio |-> <<0, 1>>,
     future_outlook |-> <<"Calculation error.">>]

\* the value of signal when the call returned nothing
NoSignal ==
    [recommendation |-> "", confidence |-> 0, color |-> "",
     price_24h |-> Num(0), price_7d |-> Num(0), volume_ratio |-> <<0, 1>>,
     future_outlook |-> <<>>]

\* ExceptClauses without the KeyError clause
ExceptClausesGeneric(exc) == [raised |-> "none", signal |-> ErrorSignal]
\* ExceptClauses catching KeyError and TypeError only
ExceptClausesNarrow(exc) ==
    IF exc = "KeyError" THEN [raised |-> "none", signal |-> DataIncompleteSignal]
    ELSE IF exc = "TypeError" THEN [raised |-> "none", signal |-> ErrorSignal]
    ELSE [raised |-> exc, signal |-> NoSignal]
\* lines 399-406: `except KeyError` then `except Exception`; every exception the try block
\* raises here is an Exception, so none leaves the call
ExceptClauses(exc) ==
    IF exc = "KeyError" THEN [raised |-> "none", signal |-> DataIncompleteSignal]
    ELSE [raised |-> "none", signal |-> ErrorSignal]

\* lines 373-406: what the call returns or raises once the try block ended in state st
Return(d, st) ==
    IF st.exc = "none" THEN [raised |-> "none", signal |-> NormalSignal(d, st)]
    ELSE ExceptClauses(st.exc)

\* calculate_investment_signal(data, indicators)
calculate_investment_signal(d, ind) == Return(d, TryBlock(d, ind))

-----------------------------------------------------------------------------
(* calculate_technical_indicators: lines 242-266 *)

SmaShortWindow == 7
SmaMidWindow == 25
SmaLongWindow == 99
RsiWindow == 14
MacdWindow == 26

\* an indicators argument: None, the empty dict, or a dict of the seven keys
Ind(rsi, sma_7, sma_25, sma_99, macd, macd_signal, macd_diff) ==
    [shape |-> "dict", rsi |-> rsi, sma_7 |-> sma_7, sma_25 |-> sma_25, sma_99 |-> sma_99,
     macd |-> macd, macd_signal |-> macd_signal, macd_diff |-> macd_diff]
NoKeys(shape) ==
    [shape |-> shape, rsi |-> Absent, sma_7 |-> Absent, sma_25 |-> Absent,
     sma_99 |-> Absent, macd |-> Absent, macd_signal |-> Absent, macd_diff |-> Absent]
NoIndicators == NoKeys("none")
EmptyDict == NoKeys("empty")

IndicatorKeys == {"sma_7", "sma_25", "sma_99", "rsi", "macd", "macd_signal", "macd_diff"}

\* a historical_df argument: None, or a DataFrame of len rows (len = 0: df.empty)
NoneDf == [shape |-> "none", len |-> 0]
Df(n) == [shape |-> "df", len |-> n]

\* NoHistory without the df.empty test
NoHistoryNoneOnly(df) == df.shape = "none"
\* lines 247-248
NoHistory(df) == df.shape = "none" \/ df.len = 0

\* LastIfEnough with a strict length test
LastIfLonger(df, window, last) == IF df.len > window THEN last ELSE Null
\* `X.iloc[-1] if len(close_prices) >= window else None`
LastIfEnough(df, window, last) == IF df.len >= window THEN last ELSE Null

\* lines 254-264: each key holds the ta library's last value when the series has the
\* window's length, else None; lib is the record of the library's seven last values
calculate_technical_indicators(df, lib) ==
    IF NoHistory(df) THEN NoIndicators
    ELSE [shape |-> "dict",
          sma_7 |-> LastIfEnough(df, SmaShortWindow, lib.sma_7),
          sma_25 |-> LastIfEnough(df, SmaMidWindow, lib.sma_25),
          sma_99 |-> LastIfEnough(df, SmaLongWindow, lib.sma_99),
          rsi |-> LastIfEnough(df, RsiWindow, lib.rsi),
          macd |-> LastIfEnough(df, MacdWindow, lib.macd),
          macd_signal |-> LastIfEnough(df, MacdWindow, lib.macd_signal),
          macd_diff |-> LastIfEnough(df, MacdWindow, lib.macd_diff)]

-----------------------------------------------------------------------------
(* the inputs the operations are called with *)

\* a nested dict such as market_data['current_price']: missing key, null, or a dict
\* whose 'usd' is val
Usd(val) == [c |-> "dict", usd |-> val]
NoKey == [c |-> "absent", usd |-> Absent]
NullDict == [c |-> "null", usd |-> Absent]

\* a snapshot dict that has market_data
Snap(p24, p7, p30, rank, cp, mc, tv) ==
    [shape |-> "dict", market_data |-> "dict",
     price_change_percentage_24h |-> p24, price_change_percentage_7d |-> p7,
     price_change_percentage_30d |-> p30, market_cap_rank |-> rank,
     current_price |-> cp, market_cap |-> mc, total_volume |-> tv]

\* a snapshot dict without market_data (md = "absent"), or with market_data: null
NoMarketData(md, rank) ==
    [shape |-> "dict", market_data |-> md,
     price_change_percentage_24h |-> Absent, price_change_percentage_7d |-> Absent,
     price_change_percentage_30d |-> Absent, market_cap_rank |-> rank,
     current_price |-> NoKey, market_cap |-> NoKey, total_volume |-> NoKey]

\* data = None
NullData == [NoMarketData("absent", Absent) EXCEPT !.shape = "null"]

Nums(S) == {Num(n) : n \in S}

\* every threshold of lines 291-306 with a point on either side
Changes24h == Nums({-11, -10, -6, -5, 0, 1, 5, 6}) \cup {Absent}
Changes7d == Nums({-16, -15, -6, -5, 0, 1, 10, 12}) \cup {Absent}
Changes30d == Nums({-31, -30, 0, 20, 25}) \cup {Absent}
Ranks == Nums({5, 10, 11, 50, 51, 200, 201}) \cup {Absent}
\* <<total_volume, market_cap>>: ratios 1, 1.5, 2, 15, 15.5 and 20 percent, a market
\* cap of 0 and below, and each key missing
Liquidity ==
    {<<Usd(Num(v)), Usd(Num(100))>> : v \in {1, 2, 15, 20}}
        \cup {<<Usd(Num(3)), Usd(Num(200))>>, <<Usd(Num(31)), Usd(Num(200))>>,
              <<Usd(Num(5)), Usd(Num(0))>>, <<Usd(Num(5)), Usd(Num(-100))>>,
              <<NoKey, NoKey>>, <<Usd(Absent), Usd(Num(100))>>,
              <<Usd(Num(5)), Usd(Absent)>>}

\* the values a field of a fetched JSON document can hold
FieldKinds == {Num(1), Absent, Null, Str}
PriceKinds == {Usd(Num(3)), Usd(Absent), Usd(Null), NoKey, NullDict}
CapKinds == {Usd(Num(100)), Usd(Num(0)), Usd(Null), Usd(Str), NoKey, NullDict}
VolumeKinds == {Usd(Num(20)), Usd(Null), NoKey, NullDict}

\* snapshots spanning the score range, for the calls that carry indicators
BaseSnapshots ==
    {Snap(Num(6), Num(12), Num(25), Num(5), Usd(Num(3)), Usd(Num(100)), Usd(Num(20))),
     Snap(Num(6), Num(11), Num(0), Num(100), Usd(Num(3)), Usd(Num(100)), Usd(Num(5))),
     Snap(Num(1), Num(1), Num(0), Num(50), Usd(Num(3)), Usd(Num(100)), Usd(Num(5))),
     Snap(Num(0), Num(0), Num(0), Num(100), Usd(Num(3)), Usd(Num(100)), Usd(Num(5))),
     Snap(Num(-6), Num(-6), Num(0), Num(100), Usd(Num(3)), Usd(Num(100)), Usd(Num(5))),
     Snap(Num(-11), Num(-16), Num(-31), Num(201), Usd(Num(3)), Usd(Num(100)), Usd(Num(1)))}
\* the highest, the base and the lowest of them
TrendSnapshots ==
    {Snap(Num(6), Num(12), Num(25), Num(5), Usd(Num(3)), Usd(Num(100)), Usd(Num(20))),
     Snap(Num(0), Num(0), Num(0), Num(100), Usd(Num(3)), Usd(Num(100)), Usd(Num(5))),
     Snap(Num(-11), Num(-16), Num(-31), Num(201), Usd(Num(3)), Usd(Num(100)), Usd(Num(1)))}
WithPrice(snapshot, cp) == [snapshot EXCEPT !.current_price = cp]
CurrentPrices == {Usd(Num(-1)), Usd(Num(1)), Usd(Num(3)), Usd(Null), Usd(Absent)}

RsiValues == Nums({29, 30, 31, 49, 50, 70, 71}) \cup {Null, NaN}
SmaValues == Nums({0, 1, 2, 3}) \cup {Null, NaN}
MacdValues == Nums({-1, 0, 1}) \cup {Null, NaN}
\* what the ta library can return for a row: a number, or NaN during its own warm-up
LibValues == {Num(2), NaN}

\* indicator sets for the calls whose subject is the snapshot
IndicatorPresets ==
    {NoIndicators, Ind(Num(50), Num(2), Num(1), Null, Num(1), Num(0), Num(1))}
\* <<sma_7, sma_25, sma_99>> for the calls whose subject is the MACD rule
SmaPresets ==
    {<<Null, Null, Null>>, <<Num(2), Num(1), Num(3)>>, <<Num(4), Num(5), Num(1)>>}

-----------------------------------------------------------------------------
(* the state machine *)

ApiCallDelay == 15

NoRef ==
    [set |-> FALSE, data |-> NullData, indicators |-> NoIndicators, signal |-> NoSignal,
     analysis_count |-> 0, last_api_call_time |-> 0]
\* the response to the market_chart request: an exception of requests.get, or a status
\* code and the number of points under 'prices'
NoResponse == [status |-> "none", prices |-> 0]
NoReport ==
    [coin |-> FALSE, snapshot |-> FALSE, history |-> FALSE, scored |-> 0, aborted |-> FALSE,
     rendered |-> FALSE, calls |-> <<>>, lines |-> {}, response |-> NoResponse]

\* the object after __init__ (lines 64-70), before any call; the clock reads a time far
\* beyond api_call_delay from 0
Init ==
    /\ analysis_count = 0
    /\ last_api_call_time = 0
    /\ now = ApiCallDelay
    /\ data = NullData
    /\ indicators = NoIndicators
    /\ signal = NoSignal
    /\ locals = Raise("none")
    /\ raised = "none"
    /\ historical_df = NoneDf
    /\ ti_result = NoIndicators
    /\ ref = NoRef
    /\ report = NoReport
    /\ issued = <<>>
    /\ lastOp = "__init__"

\* a call of calculate_investment_signal(d, ind): it reads its arguments only and
\* assigns no attribute of self; ref keeps the first call and the object's fields then
Score(d, ind) ==
    \E st \in {TryBlock(d, ind)} :
        \E r \in {Return(d, st)} :
            /\ data' = d
            /\ indicators' = ind
            /\ signal' = r.signal
            /\ raised' = r.raised
            /\ locals' = st
            /\ ref' = IF ref.set THEN ref
                      ELSE [set |-> TRUE, data |-> d, indicators |-> ind,
                            signal |-> r.signal, analysis_count |-> analysis_count,
                            last_api_call_time |-> last_api_call_time]
            /\ lastOp' = "calculate_investment_signal"
            /\ UNCHANGED <<objectFields, now, historical_df, ti_result, report, issued>>

\* no operation has been called on the object yet
Fresh == lastOp = "__init__"

\* snapshot-only calls over the grid of thresholds
ScoreGrid ==
    /\ Fresh
    /\ \E p24 \in Changes24h, p7 \in Changes7d, p30 \in Changes30d, rank \in Ranks,
       liq \in Liquidity :
        Score(Snap(p24, p7, p30, rank, Usd(Num(3)), liq[2], liq[1]), NoIndicators)

\* calls whose snapshot fields are numbers, missing, null or strings
ScoreFields ==
    /\ Fresh
    /\ \E p24 \in FieldKinds, p7 \in FieldKinds, p30 \in FieldKinds, rank \in FieldKinds,
       cp \in PriceKinds, mc \in CapKinds, tv \in VolumeKinds, ind \in IndicatorPresets :
        Score(Snap(p24, p7, p30, rank, cp, mc, tv), ind)

\* calls whose snapshot has no market_data, or is None
ScoreNoMarketData ==
    /\ Fresh
    /\ \E md \in {"absent", "null"}, rank \in {Absent, Null, Num(5)},
       ind \in IndicatorPresets, isNone \in BOOLEAN :
        Score(IF isNone THEN NullData ELSE NoMarketData(md, rank), ind)

\* calls with RSI and the moving averages
ScoreTrend ==
    /\ Fresh
    /\ \E s \in TrendSnapshots, cp \in CurrentPrices, rsi \in RsiValues,
       sma_7 \in SmaValues, sma_25 \in SmaValues, sma_99 \in SmaValues :
        Score(WithPrice(s, cp), Ind(rsi, sma_7, sma_25, sma_99, Null, Null, Null))

\* calls with the MACD triple
ScoreMacd ==
    /\ Fresh
    /\ \E s \in BaseSnapshots, rsi \in {Null, Num(29), Num(50), Num(71)}, sma \in SmaPresets,
       macd \in MacdValues, macd_signal \in MacdValues, macd_diff \in MacdValues :
        Score(s, Ind(rsi, sma[1], sma[2], sma[3], macd, macd_signal, macd_diff))

\* calls with indicators = {} and with a dict that has none of the seven keys
ScoreEmpty ==
    /\ Fresh
    /\ \E s \in BaseSnapshots, ind \in {EmptyDict, NoKeys("dict")} : Score(s, ind)

NextScorer ==
    \/ ScoreGrid
    \/ ScoreFields
    \/ ScoreNoMarketData
    \/ ScoreTrend
    \/ ScoreMacd
    \/ ScoreEmpty

SpecScorer == Init /\ [][NextScorer]_vars

-----------------------------------------------------------------------------
(* properties of calculate_investment_signal *)

Scored == lastOp = "calculate_investment_signal"
Recommendations == {"STRONG BUY", "BUY", "HOLD", "WAIT", "AVOID"}
HasMarketData(d) == d.shape = "dict" /\ d.market_data = "dict"
IsNormal(sig) == sig.recommendation \in Recommendations
\* the returned Signal is a normal one and the call carried no / some indicators
NormalWithout == Scored /\ raised = "none" /\ IsNormal(signal) /\ indicators.shape = "none"
NormalWith == Scored /\ raised = "none" /\ IsNormal(signal) /\ indicators.shape # "none"

\* the example of the specification: 24h=+6, 7d=+12, 30d=+25, rank 5, ratio 20%
ExampleSnapshot ==
    Snap(Num(6), Num(12), Num(25), Num(5), Usd(Num(3)), Usd(Num(100)), Usd(Num(20)))

\* C1 as stated: a snapshot-only call never returns a confidence above 95
C1_CeilingIs95 == NormalWithout => signal.confidence \in 10..95

\* C1, amended: every normal Signal has an integer confidence in 10..100, with or
\* without indicators, and every sentinel has confidence 0; the example snapshot without
\* indicators has raw score 101 and is returned with confidence 100
C1_ConfidenceRange ==
    Scored /\ raised = "none" =>
        /\ IsNormal(signal) => signal.confidence \in 10..100
        /\ ~IsNormal(signal) => signal.confidence = 0
        /\ data = ExampleSnapshot /\ indicators = NoIndicators =>
              locals.score = 101 /\ signal.confidence = 100

C1_Witness ==
    /\ NormalWithout
    /\ data = ExampleSnapshot
    /\ locals.score = 101
    /\ signal.confidence = 100

\* the step table of lines 377-391
TableWith(c) ==
    IF c >= 80 THEN "STRONG BUY"
    ELSE IF c \in 65..79 THEN "BUY"
    ELSE IF c \in 45..64 THEN "HOLD"
    ELSE IF c \in 25..44 THEN "WAIT"
    ELSE "AVOID"

\* the snapshot-only step table of the specification
TableWithout(c) ==
    IF c >= 75 THEN "STRONG BUY"
    ELSE IF c \in 60..74 THEN "BUY"
    ELSE IF c \in 40..59 THEN "HOLD"
    ELSE IF c \in 25..39 THEN "WAIT"
    ELSE "AVOID"

\* C2: with indicators supplied, the recommendation of a normal Signal is the step
\* table 80 / 65 / 45 / 25 applied to its clamped confidence
C2_TableWithIndicators ==
    NormalWith => signal.recommendation = TableWith(signal.confidence)

C2_Witness ==
    /\ NormalWith
    /\ IndicatorsTruthy(indicators)
    /\ signal.confidence = 80
    /\ signal.recommendation = "STRONG BUY"

\* C3 as stated: without indicators the recommendation follows the table 75 / 60 / 40 / 25
C3_SnapshotOnlyTable75 ==
    NormalWithout => signal.recommendation = TableWithout(signal.confidence)

\* C3, amended: without indicators the recommendation follows the same table as with
\* them: >= 80 STRONG BUY, 65..79 BUY, 45..64 HOLD, 25..44 WAIT, below 25 AVOID
C3_SnapshotOnlyTable ==
    NormalWithout => signal.recommendation = TableWith(signal.confidence)

C3_Witness ==
    /\ NormalWithout
    /\ signal.confidence = 75
    /\ signal.recommendation = "BUY"

\* C4: a snapshot dict without market_data, with or without indicators, returns the
\* sentinel DATA INCOMPLETE with confidence 0 and raises nothing
C4_MissingMarketData ==
    Scored /\ data.shape = "dict" /\ data.market_data = "absent" =>
        /\ raised = "none"
        /\ signal.recommendation = "DATA INCOMPLETE"
        /\ signal.confidence = 0

C4_Witness ==
    /\ Scored
    /\ data.shape = "dict"
    /\ data.market_data = "absent"
    /\ IndicatorsTruthy(indicators)
    /\ signal.recommendation = "DATA INCOMPLETE"

\* a Signal with every field populated as lines 393-397 populate it
FullyPopulated(sig) ==
    /\ sig.recommendation \in Recommendations
    /\ sig.confidence \in 10..100
    /\ sig.color \in {"BRIGHT_GREEN+BOLD", "BRIGHT_GREEN", "BRIGHT_YELLOW",
                      "BRIGHT_YELLOW+DIM", "BRIGHT_RED+BOLD"}
    /\ sig.price_24h.k \in {"num", "nan"}
    /\ sig.price_7d.k \in {"num", "nan"}
    /\ sig.volume_ratio[2] > 0
    /\ Len(sig.future_outlook) >= 1

\* the two sentinel shapes of lines 401-402 and 405-406
IsSentinel(sig, recommendation, outlook) ==
    sig = [recommendation |-> recommendation, confidence |-> 0, color |-> "RED",
           price_24h |-> Num(0), price_7d |-> Num(0), volume_ratio |-> <<0, 1>>,
           future_outlook |-> <<outlook>>]

\* a field that is present and holds null or a string
Unusable(val) == val.k \in {"null", "str"}
\* every lookup of lines 274-283 finds its dict and key
LookupsSucceed(d) ==
    /\ HasMarketData(d)
    /\ d.current_price.c = "dict"
    /\ d.market_cap.c # "null"
    /\ d.total_volume.c # "null"
\* macd and macd_signal are numbers that differ and macd_diff is unavailable
PartialMacd(ind) ==
    /\ ind.shape = "dict"
    /\ ind.macd.k = "num"
    /\ ind.macd_signal.k = "num"
    /\ ind.macd.v # ind.macd_signal.v
    /\ ind.macd_diff.k = "null"

\* C5: no call raises; what it returns is a fully populated Signal or one of the two
\* sentinels; a fault that is not a missing key (a null or non-numeric change or rank, a
\* null market_data, current_price, market_cap or total_volume, data = None, a MACD pair
\* without its histogram) returns the sentinel ERROR with confidence 0
C5_NeverRaises ==
    Scored =>
        /\ raised = "none"
        /\ \/ FullyPopulated(signal)
           \/ IsSentinel(signal, "DATA INCOMPLETE", "Data error.")
           \/ IsSentinel(signal, "ERROR", "Calculation error.")
        /\ locals.exc \notin {"none", "KeyError"} =>
              IsSentinel(signal, "ERROR", "Calculation error.")
        /\ data.shape = "null" => signal.recommendation = "ERROR"
        /\ data.shape = "dict" /\ data.market_data = "null" =>
              signal.recommendation = "ERROR"
        /\ HasMarketData(data) /\ data.current_price.c = "null" =>
              signal.recommendation = "ERROR"
        /\ LookupsSucceed(data)
              /\ \/ Unusable(data.price_change_percentage_24h)
                 \/ Unusable(data.price_change_percentage_7d)
                 \/ Unusable(data.price_change_percentage_30d)
                 \/ Unusable(data.market_cap_rank)
              => signal.recommendation = "ERROR"
        /\ LookupsSucceed(data) /\ PartialMacd(indicators) =>
              signal.recommendation = "ERROR"

C5_Witness ==
    /\ Scored
    /\ HasMarketData(data)
    /\ PartialMacd(indicators)
    /\ raised = "none"
    /\ IsSentinel(signal, "ERROR", "Calculation error.")

\* a field is a number or is missing
NumOrAbsent(val) == val.k \in {"num", "absent"}
DictOrAbsent(nested) == nested.c \in {"dict", "absent"} /\ NumOrAbsent(nested.usd)
\* a snapshot with market_data, each field of which is a number or is missing
FieldsPresentOrAbsent(d) ==
    /\ HasMarketData(d)
    /\ NumOrAbsent(d.price_change_percentage_24h)
    /\ NumOrAbsent(d.price_change_percentage_7d)
    /\ NumOrAbsent(d.price_change_percentage_30d)
    /\ NumOrAbsent(d.market_cap_rank)
    /\ DictOrAbsent(d.current_price)
    /\ DictOrAbsent(d.market_cap)
    /\ DictOrAbsent(d.total_volume)

\* C6: a snapshot with market_data returns a normal Signal whichever of its fields are
\* missing (the code returns DATA INCOMPLETE when current_price is missing)
C6_AbsentFieldsTolerated ==
    Scored /\ FieldsPresentOrAbsent(data) /\ indicators = NoIndicators =>
        IsNormal(signal)

\* the contributions of the five snapshot rules, as the specification states them
Claimed24h(p) ==
    CASE p > 5 -> 15 [] p <= 5 /\ p > 0 -> 5 [] p < -10 -> -20
      [] p >= -10 /\ p < -5 -> -10 [] OTHER -> 0
Claimed7d(p) ==
    CASE p > 10 -> 10 [] p <= 10 /\ p > 0 -> 3 [] p < -15 -> -15
      [] p >= -15 /\ p < -5 -> -8 [] OTHER -> 0
Claimed30d(p) == CASE p > 20 -> 8 [] p < -30 -> -12 [] OTHER -> 0
ClaimedRank(r) == CASE r <= 10 -> 10 [] r \in 11..50 -> 5 [] r > 200 -> -5 [] OTHER -> 0
\* the ratio in percent is tv * 100 / mc, and 0 when mc <= 0
ClaimedVolume(tv, mc) ==
    CASE mc <= 0 -> -10
      [] mc > 0 /\ tv * 100 > 15 * mc -> 8
      [] mc > 0 /\ tv * 100 < 2 * mc -> -10
      [] OTHER -> 0
ValueOr(val, default) == IF val.k = "num" THEN val.v ELSE default
UsdOr(nested, default) == IF nested.c = "dict" THEN ValueOr(nested.usd, default) ELSE default

\* C7: without indicators the score before capping is 50 plus the five contributions,
\* and the returned ratio is 0 when the market cap is not positive
C7_SnapshotScore ==
    Scored /\ locals.exc = "none" /\ indicators = NoIndicators =>
        /\ locals.score =
              50 + Claimed24h(ValueOr(data.price_change_percentage_24h, 0))
                 + Claimed7d(ValueOr(data.price_change_percentage_7d, 0))
                 + Claimed30d(ValueOr(data.price_change_percentage_30d, 0))
                 + ClaimedRank(ValueOr(data.market_cap_rank, 9999))
                 + ClaimedVolume(UsdOr(data.total_volume, 0), UsdOr(data.market_cap, 0))
        /\ UsdOr(data.market_cap, 0) <= 0 => signal.volume_ratio = <<0, 1>>

\* every input on a threshold: 24h = 5, 7d = 10, 30d = 20, rank 10, ratio 15%
C7_Witness ==
    /\ Scored
    /\ indicators = NoIndicators
    /\ data = Snap(Num(5), Num(10), Num(20), Num(10), Usd(Num(3)), Usd(Num(100)),
                   Usd(Num(15)))
    /\ locals.score = 50 + 5 + 3 + 0 + 10 + 0

-----------------------------------------------------------------------------
(* calculate_technical_indicators on its own *)

MaxLen == 100

\* the seven last values the ta library computes for a series
LibResults ==
    [sma_7 : LibValues, sma_25 : LibValues, sma_99 : LibValues, rsi : LibValues,
     macd : LibValues, macd_signal : LibValues, macd_diff : LibValues]

\* a call of calculate_technical_indicators(df); it assigns no attribute of self
Compute(df, lib) ==
    /\ historical_df' = df
    /\ ti_result' = calculate_technical_indicators(df, lib)
    /\ lastOp' = "calculate_technical_indicators"
    /\ UNCHANGED <<objectFields, now, data, indicators, signal, locals, raised, ref, report,
                   issued>>

\* historical_df is None
ComputeNone == Fresh /\ \E lib \in LibResults : Compute(NoneDf, lib)

\* historical_df is a DataFrame of 0..MaxLen rows
ComputeSeries == Fresh /\ \E n \in 0..MaxLen, lib \in LibResults : Compute(Df(n), lib)

NextIndicators == ComputeNone \/ ComputeSeries

SpecIndicators == Init /\ [][NextIndicators]_vars

Computed == lastOp = "calculate_technical_indicators"
Available(val) == val.k \notin {"null", "absent"}
\* an IndicatorSet record: a dict that holds each of the seven keys
IsIndicatorSet(ind) ==
    /\ ind.shape = "dict"
    /\ \A key \in IndicatorKeys : ind[key].k # "absent"
AllUnavailable(ind) == \A key \in IndicatorKeys : ~Available(ind[key])
ShortSeries(df) == df.shape = "none" \/ df.len < 7

\* C9 as stated: every series of fewer than 7 points, the empty and the null series
\* included, returns an IndicatorSet whose seven fields are present and unavailable
C9_ShortSeriesAllFields ==
    Computed /\ ShortSeries(historical_df) =>
        IsIndicatorSet(ti_result) /\ AllUnavailable(ti_result)

\* C9, amended: a series of 1 to 6 points returns an IndicatorSet whose seven fields are
\* present and unavailable; the empty and the null series return None, no IndicatorSet
C9_ShortSeries ==
    Computed /\ ShortSeries(historical_df) =>
        IF historical_df.shape = "df" /\ historical_df.len >= 1
        THEN IsIndicatorSet(ti_result) /\ AllUnavailable(ti_result)
        ELSE ti_result = NoIndicators

C9_Witness ==
    /\ Computed
    /\ historical_df = Df(0)
    /\ ti_result.shape = "none"

\* C10: for a non-empty series of length L each field is available exactly from its
\* minimum history on: sma_7 7, sma_25 25, sma_99 99, rsi 14, the three MACD fields 26
C10_Availability ==
    Computed /\ historical_df.shape = "df" /\ historical_df.len >= 1 =>
        /\ IsIndicatorSet(ti_result)
        /\ Available(ti_result.sma_7) <=> historical_df.len >= 7
        /\ Available(ti_result.sma_25) <=> historical_df.len >= 25
        /\ Available(ti_result.sma_99) <=> historical_df.len >= 99
        /\ Available(ti_result.rsi) <=> historical_df.len >= 14
        /\ Available(ti_result.macd) <=> historical_df.len >= 26
        /\ Available(ti_result.macd_signal) <=> historical_df.len >= 26
        /\ Available(ti_result.macd_diff) <=> historical_df.len >= 26

C10_Witness ==
    /\ Computed
    /\ historical_df = Df(26)
    /\ Available(ti_result.macd)
    /\ Available(ti_result.macd_signal)
    /\ Available(ti_result.macd_diff)
    /\ Available(ti_result.sma_25)
    /\ ~Available(ti_result.sma_99)

-----------------------------------------------------------------------------
(* the CryptoScope object: analyze_coin, the rate-limited fetches, direct calls *)

MaxTime == 50
\* time.sleep(0.8) and time.sleep(0.3) of analyze_coin, in ticks of 0.1 s
AnalysisSleep == 8
RenderSleep == 3

\* how much longer than asked a time.sleep of _enforce_rate_limit can last
Oversleeps == {0, 1}

\* _enforce_rate_limit without its sleep
EnforceRateLimitNoSleep(t, last, over) == t

\* lines 155-162: the time at which _enforce_rate_limit returns when entered at time t
\* with last_api_call_time = last; it stores that time in last_api_call_time, and the
\* caller issues its request then
EnforceRateLimit(t, last, over) ==
    IF t - last < ApiCallDelay THEN t + (ApiCallDelay - (t - last)) + over ELSE t

\* the documents get_crypto_data can hand to analyze_coin; each holds the 'name' and
\* 'symbol' keys that lines 425 and 466 read by subscript
FetchedSnapshots ==
    {ExampleSnapshot,
     Snap(Num(0), Num(0), Num(0), Num(100), Usd(Num(3)), Usd(Num(100)), Usd(Num(5))),
     Snap(Null, Num(0), Num(0), Num(100), Usd(Num(3)), Usd(Num(100)), Usd(Num(5))),
     Snap(Num(0), Num(0), Num(0), Num(100), Usd(Num(3)), Usd(Num(0)), Usd(Null)),
     NoMarketData("absent", Num(5))}
\* the snapshots of the direct calls
DirectSnapshots ==
    {Snap(Num(0), Num(0), Num(0), Num(100), Usd(Num(3)), Usd(Num(100)), Usd(Num(5))),
     Snap(Null, Num(0), Num(0), Num(100), Usd(Num(3)), Usd(Num(100)), Usd(Num(5))),
     NoMarketData("absent", Num(5))}

\* the responses to the market_chart request: requests.get raises, a status other than
\* 200, status 200 without prices, status 200 with 30 daily prices
HistoryResponses ==
    {[status |-> "exception", prices |-> 0], [status |-> "429", prices |-> 0],
     [status |-> "200", prices |-> 0], [status |-> "200", prices |-> 30]}

\* get_historical_data returning a DataFrame whatever the response
get_historical_dataAlways(resp) == Df(30)

\* lines 216-240: what get_historical_data returns for a response
get_historical_data(resp) ==
    IF resp.status = "200" /\ resp.prices > 0 THEN Df(resp.prices) ELSE NoneDf

\* what get_historical_data returns: None (a failure or no prices), or a DataFrame
FetchedHistories == {get_historical_data(resp) : resp \in HistoryResponses}
LibPresets ==
    {[sma_7 |-> Num(2), sma_25 |-> Num(1), sma_99 |-> Num(1), rsi |-> Num(50),
      macd |-> Num(1), macd_signal |-> NaN, macd_diff |-> NaN]}
\* the time a request takes
Latencies == {2}
\* the time the user takes at the menu prompt
ThinkTimes == {ApiCallDelay}

\* lines 457-473 of analyze_coin: `volume_24h > 0` raises TypeError when total_volume
\* holds null or a string (the scorer reads it only when market_cap > 0)
RenderFault(d) == NotNumeric(TotalVolume(d))

\* line 445 with "ERROR" alone
AbortRecommendationsErrorOnly == {"ERROR"}

\* line 445: the recommendations on which analyze_coin gives up
AbortRecommendations == {"ERROR", "DATA INCOMPLETE", "Calculation error."}

\* lines 469-497: the lines of the report that print a field of the Signal
ReportLines ==
    {"price_24h", "price_7d", "volume_ratio", "color", "recommendation", "confidence",
     "future_outlook"}

\* analyze_coin(coin_id) with an empty coin_id: lines 412-414
AnalyzeNothing ==
    /\ lastOp # "crashed"
    /\ report' = [NoReport EXCEPT !.aborted = TRUE]
    /\ lastOp' = "analyze_coin"
    /\ UNCHANGED <<objectFields, now, data, indicators, signal, locals, raised,
                   historical_df, ti_result, ref, issued>>

\* analyze_coin(coin_id) whose snapshot fetch returns None: lines 419-423
AnalyzeNoData ==
    /\ lastOp # "crashed"
    /\ \E d1 \in Latencies, o1 \in Oversleeps :
        LET t1 == EnforceRateLimit(now, last_api_call_time, o1) IN
        /\ t1 + d1 <= MaxTime
        /\ last_api_call_time' = t1
        /\ issued' = Append(issued, t1)
        /\ now' = t1 + d1
    /\ report' = [NoReport EXCEPT !.coin = TRUE, !.aborted = TRUE,
                                  !.calls = <<"get_crypto_data">>]
    /\ lastOp' = "analyze_coin"
    /\ UNCHANGED <<analysis_count, data, indicators, signal, locals, raised,
                   historical_df, ti_result, ref>>

\* analyze_coin(coin_id) whose snapshot fetch returns a document: lines 419-512
AnalyzeCoin ==
    /\ lastOp # "crashed"
    /\ \E d \in FetchedSnapshots, resp \in HistoryResponses, lib \in LibPresets,
          d1 \in Latencies, d2 \in Latencies, o1 \in Oversleeps, o2 \in Oversleeps :
        LET t1 == EnforceRateLimit(now, last_api_call_time, o1)
            t2 == EnforceRateLimit(t1 + d1, t1, o2)
            df == get_historical_data(resp)
            ind == IF NoHistory(df) THEN NoIndicators
                   ELSE calculate_technical_indicators(df, lib)
            st == TryBlock(d, ind)
            r == Return(d, st)
            scoredAt == t2 + d2 + AnalysisSleep
            sentinel == r.signal.recommendation \in AbortRecommendations
            fault == ~sentinel /\ RenderFault(d)
        IN
        /\ scoredAt + RenderSleep <= MaxTime
        /\ last_api_call_time' = t2
        /\ issued' = issued \o <<t1, t2>>
        /\ historical_df' = IF NoHistory(df) THEN historical_df ELSE df
        /\ ti_result' = IF NoHistory(df) THEN ti_result ELSE ind
        /\ data' = d
        /\ indicators' = ind
        /\ signal' = r.signal
        /\ raised' = r.raised
        /\ locals' = st
        /\ now' = IF sentinel THEN scoredAt ELSE scoredAt + RenderSleep
        /\ analysis_count' = IF sentinel \/ fault THEN analysis_count
                             ELSE analysis_count + 1
        /\ report' = [coin |-> TRUE, snapshot |-> TRUE, history |-> TRUE, scored |-> 1,
                      aborted |-> sentinel, rendered |-> ~sentinel /\ ~fault,
                      calls |-> <<"get_crypto_data", "get_historical_data">>
                                    \o (IF NoHistory(df) THEN <<>>
                                        ELSE <<"calculate_technical_indicators">>)
                                    \o <<"calculate_investment_signal">>,
                      lines |-> IF sentinel \/ fault THEN {} ELSE ReportLines,
                      response |-> resp]
        /\ lastOp' = IF fault THEN "crashed" ELSE "analyze_coin"
        /\ UNCHANGED ref

\* show_popular_coins: lines 550-583, with get_popular_coins behind the rate limit
ShowPopularCoins ==
    /\ lastOp # "crashed"
    /\ \E d1 \in Latencies, o1 \in Oversleeps :
        LET t1 == EnforceRateLimit(now, last_api_call_time, o1) IN
        /\ t1 + d1 <= MaxTime
        /\ last_api_call_time' = t1
        /\ issued' = Append(issued, t1)
        /\ now' = t1 + d1
    /\ lastOp' = "show_popular_coins"
    /\ UNCHANGED <<analysis_count, data, indicators, signal, locals, raised,
                   historical_df, ti_result, ref, report>>

\* the user waits at the menu prompt
Wait ==
    /\ lastOp # "crashed"
    /\ \E dt \in ThinkTimes :
        /\ now + dt <= MaxTime
        /\ now' = now + dt
    /\ lastOp' = "input"
    /\ UNCHANGED <<objectFields, data, indicators, signal, locals, raised,
                   historical_df, ti_result, ref, report, issued>>

\* a direct call of calculate_investment_signal on the object
CallScore ==
    /\ lastOp # "crashed"
    /\ \E d \in DirectSnapshots, ind \in IndicatorPresets : Score(d, ind)

Next ==
    \/ AnalyzeNothing
    \/ AnalyzeNoData
    \/ AnalyzeCoin
    \/ ShowPopularCoins
    \/ Wait
    \/ CallScore

Spec == Init /\ [][Next]_vars

-----------------------------------------------------------------------------
(* properties of the object *)

\* this step called calculate_investment_signal directly / inside analyze_coin
DirectCall == lastOp' = "calculate_investment_signal"
CallInAnalysis == lastOp' \in {"analyze_coin", "crashed"} /\ report'.scored = 1

-----------------------------------------------------------------------------
(* properties of the indicator rules of calculate_investment_signal *)

\* the score of the five snapshot rules, as the specification states them
ClaimedSnapshot(d) ==
    50 + Claimed24h(ValueOr(d.price_change_percentage_24h, 0))
       + Claimed7d(ValueOr(d.price_change_percentage_7d, 0))
       + Claimed30d(ValueOr(d.price_change_percentage_30d, 0))
       + ClaimedRank(ValueOr(d.market_cap_rank, 9999))
       + ClaimedVolume(UsdOr(d.total_volume, 0), UsdOr(d.market_cap, 0))

\* the call ran the indicator rules to their end
RulesRan == Scored /\ locals.exc = "none" /\ indicators.shape = "dict"
\* no moving-average rule and no MACD rule can act: their fields are unavailable
OnlyRsi(ind) ==
    /\ ~Available(ind.sma_7)
    /\ ~Available(ind.sma_25)
    /\ ~Available(ind.macd)
    /\ ~Available(ind.macd_signal)

\* the contribution and the outlook of the RSI rule, as the specification states them
ClaimedRsi(rsi) ==
    CASE rsi > 70 -> -10
      [] rsi < 30 -> 10
      [] 50 <= rsi /\ rsi <= 70 -> 5
      [] 30 < rsi /\ rsi < 50 -> -5
      [] OTHER -> 0
ClaimedRsiOutlook(rsi) ==
    CASE rsi > 70 -> <<Overbought>>
      [] rsi < 30 -> <<Oversold>>
      [] 50 <= rsi /\ rsi <= 70 -> <<PositiveMomentum>>
      [] 30 < rsi /\ rsi < 50 -> <<WeakMomentum>>
      [] OTHER -> <<NeutralOutlook>>

\* C11: with a numeric RSI and no other indicator rule in play, the score before
\* capping is the snapshot score plus -10 above 70, +10 below 30, +5 in [50, 70], -5 in
\* (30, 50) and 0 at exactly 30, and the outlook is the phrase of that band (the
\* outlook is still the initial one when the RSI rule runs, so the two middle bands
\* set theirs)
C11_RsiRule ==
    RulesRan /\ indicators.rsi.k = "num" /\ OnlyRsi(indicators) =>
        /\ locals.score = ClaimedSnapshot(data) + ClaimedRsi(indicators.rsi.v)
        /\ locals.future_outlook = ClaimedRsiOutlook(indicators.rsi.v)
        /\ signal.future_outlook = locals.future_outlook

\* an RSI of exactly 30 leaves the score and the outlook as the snapshot rules left them
C11_Witness ==
    /\ RulesRan
    /\ OnlyRsi(indicators)
    /\ indicators.rsi = Num(30)
    /\ locals.score = ClaimedSnapshot(data)
    /\ signal.future_outlook = <<NeutralOutlook>>

\* no RSI, long-term and MACD rule can act: their fields are unavailable
OnlySmaShort(ind) ==
    /\ ~Available(ind.rsi)
    /\ ~Available(ind.sma_99)
    /\ ~Available(ind.macd)
    /\ ~Available(ind.macd_signal)

\* the contribution of the short/mid moving-average rule, as the specification states it
ClaimedSmaShort(price, sma7, sma25) ==
    CASE price > sma7 /\ sma7 > sma25 -> 10
      [] price < sma7 /\ sma7 < sma25 -> -10
      [] OTHER -> 0

\* C12: with sma_7 and sma_25 both numbers (0 included) and no other indicator rule in
\* play, the score before capping is the snapshot score plus 10 when
\* price > sma_7 > sma_25, minus 10 when price < sma_7 < sma_25, and unchanged otherwise
\* (the code skips the rule when sma_7 or sma_25 is 0)
C12_SmaShortRule ==
    /\ RulesRan
    /\ OnlySmaShort(indicators)
    /\ indicators.sma_7.k = "num"
    /\ indicators.sma_25.k = "num"
    /\ CurrentPrice(data).k = "num"
    => locals.score = ClaimedSnapshot(data)
                        + ClaimedSmaShort(CurrentPrice(data).v, indicators.sma_7.v,
                                          indicators.sma_25.v)

\* the phrases that lines 341-371 append to an outlook
AppendedPhrases ==
    {StrongShort, StrongShortBearish, LongBullishAppend, LongBearishAppend,
     MomentumStrengthening, MomentumWeakening}
\* the outlook is the phrase followed by appended phrases only
BeginsWith(outlook, phrase) ==
    /\ Len(outlook) >= 1
    /\ outlook[1] = phrase
    /\ \A i \in 2..Len(outlook) : outlook[i] \in AppendedPhrases

\* C13: in every normal Signal of a call with an RSI above 70 (below 30), the outlook is
\* the overbought (oversold) phrase followed only by text that the moving-average and
\* MACD rules appended; no later rule replaces the phrase
C13_RsiPhraseKept ==
    Scored /\ IsNormal(signal) /\ indicators.shape = "dict" /\ indicators.rsi.k = "num" =>
        /\ indicators.rsi.v > 70 => BeginsWith(signal.future_outlook, Overbought)
        /\ indicators.rsi.v < 30 => BeginsWith(signal.future_outlook, Oversold)

\* an RSI above 70 followed by a downward short/mid rule and a MACD rule that both
\* appended to the overbought phrase
C13_Witness ==
    /\ Scored
    /\ IsNormal(signal)
    /\ indicators.rsi = Num(71)
    /\ signal.future_outlook = <<Overbought, StrongShortBearish, MomentumStrengthening>>

\* the phrases of each indicator rule
RsiPhrases == {Overbought, Oversold, PositiveMomentum, WeakMomentum}
SmaShortPhrases == {UpwardTrend, DownwardTrend, StrongShort, StrongShortBearish}
SmaLongPhrases == {LongBullish, LongBearish, LongBullishAppend, LongBearishAppend}
MacdPhrases ==
    {BullishMomentum, BearishMomentum, MomentumStrengthening, MomentumWeakening}
Uses(outlook, phrases) == \E i \in 1..Len(outlook) : outlook[i] \in phrases

\* the fields a rule reads are available
RsiFields(ind) == Available(ind.rsi)
SmaShortFields(ind) == Available(ind.sma_7) /\ Available(ind.sma_25)
SmaLongFields(ind) == Available(ind.sma_25) /\ Available(ind.sma_99)
MacdFields(ind) == Available(ind.macd) /\ Available(ind.macd_signal)

\* what the rules whose fields are available can add to the score between them
RuleSums(ind) ==
    {a + b + c + m :
        a \in IF RsiFields(ind) THEN {-10, -5, 0, 5, 10} ELSE {0},
        b \in IF SmaShortFields(ind) THEN {-10, 0, 10} ELSE {0},
        c \in IF SmaLongFields(ind) THEN {-5, 0, 5} ELSE {0},
        m \in IF MacdFields(ind) THEN {-8, 0, 8} ELSE {0}}

\* C16: a call with an indicator set whose seven fields are all unavailable returns the
\* Signal of the call without indicators on the same snapshot, with the outlook
\* "Neutral outlook." and the snapshot score when that Signal is a normal one; and in
\* every call a rule whose fields are unavailable adds nothing to the score and leaves
\* none of its phrases in the outlook
C16_UnavailableSkipped ==
    /\ Scored /\ indicators.shape = "dict" /\ AllUnavailable(indicators) =>
          /\ signal = calculate_investment_signal(data, NoIndicators).signal
          /\ raised = "none"
          /\ IsNormal(signal) =>
                /\ signal.future_outlook = <<NeutralOutlook>>
                /\ locals.score = ClaimedSnapshot(data)
    /\ RulesRan =>
          /\ locals.score - ClaimedSnapshot(data) \in RuleSums(indicators)
          /\ ~RsiFields(indicators) => ~Uses(locals.future_outlook, RsiPhrases)
          /\ ~SmaShortFields(indicators) => ~Uses(locals.future_outlook, SmaShortPhrases)
          /\ ~SmaLongFields(indicators) => ~Uses(locals.future_outlook, SmaLongPhrases)
          /\ ~MacdFields(indicators) => ~Uses(locals.future_outlook, MacdPhrases)

\* an indicator set of seven None values on a snapshot that scores away from 50
C16_Witness ==
    /\ Scored
    /\ indicators = Ind(Null, Null, Null, Null, Null, Null, Null)
    /\ IsNormal(signal)
    /\ signal.confidence = 100
    /\ signal.future_outlook = <<NeutralOutlook>>
    /\ signal = calculate_investment_signal(data, NoIndicators).signal

-----------------------------------------------------------------------------
(* properties of analyze_coin and of the rate limit *)

\* this step is a call of analyze_coin, returned or left by an exception
AnalysisStep == lastOp' \in {"analyze_coin", "crashed"}
AfterAnalysis == lastOp \in {"analyze_coin", "crashed"}

\* C14: when the scorer hands analyze_coin a Signal whose recommendation is DATA
\* INCOMPLETE or ERROR, the analysis prints the abort message, prints no line of the
\* report and leaves analysis_count alone; analysis_count changes only in an analysis
\* that printed every line of the report, and then by one
C14_SentinelTerminal ==
    [][/\ AnalysisStep /\ report'.scored = 1
            /\ signal'.recommendation \in {"DATA INCOMPLETE", "ERROR"}
          => /\ report'.aborted
             /\ report'.lines = {}
             /\ ~report'.rendered
             /\ analysis_count' = analysis_count
       /\ analysis_count' # analysis_count
          => /\ AnalysisStep
             /\ analysis_count' = analysis_count + 1
             /\ report'.rendered
             /\ ~report'.aborted
             /\ report'.lines = {"price_24h", "price_7d", "volume_ratio", "recommendation",
                                 "confidence", "future_outlook", "color"}]_vars

\* an analysis that fetched a snapshot without market_data and gave up
C14_Witness ==
    /\ lastOp = "analyze_coin"
    /\ report.scored = 1
    /\ signal.recommendation = "DATA INCOMPLETE"
    /\ report.aborted
    /\ report.lines = {}
    /\ analysis_count = 0

\* C15: any two consecutive requests of get_crypto_data, get_historical_data and
\* get_popular_coins are issued at least api_call_delay apart, and last_api_call_time
\* is the instant of the latest one, whether or not _enforce_rate_limit slept before it
C15_RequestsSpaced ==
    /\ \A i \in 1..(Len(issued) - 1) : issued[i + 1] - issued[i] >= ApiCallDelay
    /\ Len(issued) > 0 => last_api_call_time = issued[Len(issued)]

\* three requests: the second was issued without a sleep, 1.7 s after the first, the
\* third after a sleep that ended 1.5 s after the second
C15_Witness ==
    /\ issued = <<15, 32, 47>>
    /\ last_api_call_time = 47

\* the history fetch failed or brought no prices
NoSeries(resp) == resp.status # "200" \/ resp.prices = 0

====
